---- MODULE Spec2Model ----
(***************************************************************************)
(* A model of the wasm_jit runtime: the x86-64 encoder (assembler.rs), the *)
(* single-pass code generator with its virtual stack (compiler.rs), the    *)
(* runtime entry points (runtime.rs, runtime/store.rs) and an abstract     *)
(* x86-64 machine that executes the emitted instructions.                  *)
(*                                                                         *)
(* Machine words are scaled: a 64-bit register holds a value modulo        *)
(* Full = 2^(2*HalfBits) and its 32-bit sub-register the value modulo      *)
(* Half = 2^HalfBits, because the model checker's integers are 32 bits.    *)
(***************************************************************************)
EXTENDS Integers, Sequences, FiniteSets, TLC

\* ------------------------------------------------------------------------
\* Bounds of the model
\* ------------------------------------------------------------------------
HalfBits == 13
MaxGarbage == 2
MaxStackSlots == 24

Half == 2 ^ HalfBits
Full == Half * Half

\* Values an uninitialised or foreign memory slot may hold: small numbers and
\* one value whose low half is zero while its upper half is not.
Garbage == (0 .. MaxGarbage) \cup {Half}

\* ------------------------------------------------------------------------
\* Program constants and the address layout of the process
\* ------------------------------------------------------------------------
CODE_AREA_SIZE == 1024
LOCAL_BASE_COUNT == 1
p_start == 4096
CallFuncInternalAddr == 8192
ResultPtr == 12288
EntryRsp == 16392
RuntimePtr == 16640
HostRet == 1

U64(n) == n % Full
U32(n) == n % Half
\* signed reading of a 32-bit / 64-bit pattern
S32(u) == IF U32(u) >= Half \div 2 THEN U32(u) - Half ELSE U32(u)
S64(u) == IF U64(u) >= Full \div 2 THEN U64(u) - Full ELSE U64(u)

RECURSIVE to_le_bytes(_, _)
to_le_bytes(v, n) ==
  IF n = 0 THEN << >> ELSE << v % 256 >> \o to_le_bytes(v \div 256, n - 1)

RECURSIVE Flatten(_)
Flatten(ss) == IF ss = << >> THEN << >> ELSE Head(ss) \o Flatten(Tail(ss))

RECURSIVE SumLen(_)
SumLen(is) == IF is = << >> THEN 0 ELSE Len(Head(is).bytes) + SumLen(Tail(is))

\* ------------------------------------------------------------------------
\* assembler.rs: registers and encoder
\* ------------------------------------------------------------------------
Register64 ==
  << "Rax", "Rcx", "Rdx", "Rbx", "Rsp", "Rbp", "Rsi", "Rdi",
     "R8", "R9", "R10", "R11", "R12", "R13", "R14", "R15" >>

RegNames == { Register64[i] : i \in 1 .. 16 }

number(reg) == (CHOOSE i \in 1 .. 16 : Register64[i] = reg) - 1

B(b) == IF b THEN 1 ELSE 0

rex(w, r, x, b) == 64 + 8 * B(w) + 4 * B(r) + 2 * B(x) + B(b)

mod_rm(mod_, reg, rm) == (mod_ % 4) * 64 + (reg % 8) * 8 + (rm % 8)

sib(scale, index, base) == (scale % 4) * 64 + (index % 8) * 8 + (base % 8)

\* to_code as it would be if it always used the 32-bit displacement form
to_code_disp32(base, offset, reg_opcode) ==
  IF base \in {"Rsp", "R12"}
    THEN << mod_rm(2, reg_opcode, 4), sib(0, 4, 4) >> \o to_le_bytes(offset, 4)
    ELSE << mod_rm(2, reg_opcode, number(base)) >> \o to_le_bytes(offset, 4)

\* Addressing::to_code
to_code(base, offset, reg_opcode) ==
  LET n == number(base)
      sp == base \in {"Rsp", "R12"}
  IN IF offset = 0
       THEN IF sp THEN << mod_rm(0, reg_opcode, 4), sib(0, 4, 4) >>
            ELSE IF base \in {"Rbp", "R13"} THEN << mod_rm(1, reg_opcode, n), 0 >>
            ELSE << mod_rm(0, reg_opcode, n) >>
     ELSE IF offset >= -128 /\ offset <= 127
       THEN IF sp THEN << mod_rm(1, reg_opcode, 4), sib(0, 4, 4), offset % 256 >>
            ELSE << mod_rm(1, reg_opcode, n), offset % 256 >>
     ELSE IF sp THEN << mod_rm(2, reg_opcode, 4), sib(0, 4, 4) >> \o to_le_bytes(offset, 4)
          ELSE << mod_rm(2, reg_opcode, n) >> \o to_le_bytes(offset, 4)

opcode_rm_reg(opcode, dest, src, size) ==
  << rex(size = 8, number(src) >= 8, FALSE, number(dest) >= 8),
     opcode, mod_rm(3, number(src), number(dest)) >>

\* An emitted instruction: what it does (op and operands) and its bytes.
Instr(op, dst, src, imm, w, bytes) ==
  [op |-> op, dst |-> dst, src |-> src, imm |-> imm, w |-> w, bytes |-> bytes]

Push_r(r) ==
  Instr("push", r, "", 0, 64,
        IF number(r) < 8 THEN << 80 + number(r) >> ELSE << 65, 80 + number(r) - 8 >>)

Pop_r(r) ==
  Instr("pop", r, "", 0, 64,
        IF number(r) < 8 THEN << 88 + number(r) >> ELSE << 65, 88 + number(r) - 8 >>)

Mov_rr(dst, src) == Instr("mov_rr", dst, src, 0, 64, opcode_rm_reg(137, dst, src, 8))

Mov_r32_imm(r, v) ==
  Instr("mov_ri", r, "", v, 32,
        (IF number(r) < 8 THEN << 184 + number(r) >> ELSE << 65, 184 + number(r) - 8 >>)
          \o to_le_bytes(v, 4))

Mov_r64_imm(r, v) ==
  Instr("mov_ri", r, "", v, 64,
        (IF number(r) < 8 THEN << 72, 184 + number(r) >> ELSE << 73, 184 + number(r) - 8 >>)
          \o to_le_bytes(v, 8))

\* mov dst, [base + offset]
Mov_r_mem(dst, base, offset) ==
  Instr("load", dst, base, offset, 64,
        << rex(TRUE, number(dst) >= 8, FALSE, number(base) >= 8), 139 >>
          \o to_code(base, offset, number(dst)))

\* mov [base + offset], src
Mov_mem_r(base, offset, src) ==
  Instr("store", base, src, offset, 64,
        << rex(TRUE, number(src) >= 8, FALSE, number(base) >= 8), 137 >>
          \o to_code(base, offset, number(src)))

Call_r(r) ==
  Instr("call", r, "", 0, 64,
        IF number(r) < 8 THEN << 255, 208 + number(r) >>
        ELSE << 65, 255, 208 + number(r) - 8 >>)

ret == Instr("ret", "", "", 0, 64, << 195 >>)

Add_rr(dst, src, w) == Instr("add_rr", dst, src, 0, w, opcode_rm_reg(1, dst, src, w \div 8))

Add_r64_imm(r, v) ==
  Instr("add_ri", r, "", v, 64,
        << rex(TRUE, FALSE, FALSE, number(r) >= 8), 129, mod_rm(3, 0, number(r)) >>
          \o to_le_bytes(v, 4))

Sub_rr(dst, src, w) == Instr("sub_rr", dst, src, 0, w, opcode_rm_reg(41, dst, src, w \div 8))

Cmp_rr(dst, src, w) == Instr("cmp_rr", dst, src, 0, w, opcode_rm_reg(57, dst, src, w \div 8))

\* sete al
Sete_al == Instr("sete", "Rax", "", 0, 8, << 15, 148, 192 >>)

Register8 == << "Al", "Cl", "Dl", "Bl", "Ah", "Ch", "Dh", "Bh" >>

number8(reg) == (CHOOSE i \in 1 .. 8 : Register8[i] = reg) - 1

\* movzx r32, r8
Movzx_r32_r8(dst, src) ==
  Instr("movzx", dst, src, 0, 32, << 15, 182, mod_rm(3, number(dst), number8(src)) >>)

\* push [base + offset]
Push_mem(base, offset) ==
  Instr("push_mem", "", base, offset, 64,
        (IF number(base) >= 8 THEN << 65 >> ELSE << >>) \o << 255 >>
          \o to_code(base, offset, 6))

\* movzx eax, al
Movzx_eax_al == Instr("movzx", "Rax", "Rax", 0, 32, << 15, 182, mod_rm(3, 0, 0) >>)

Je(rel) == Instr("je", "", "", rel, 32, << 15, 132 >> \o to_le_bytes(rel, 4))

Jmp(rel) == Instr("jmp", "", "", rel, 32, << 233 >> \o to_le_bytes(rel, 4))

\* The generator also uses `cmp r32, imm32` and `mov r32, r32`, which
\* assembler.rs does not define; they are encoded in the style of the encoder's
\* `add r64, imm32` and of opcode_rm_reg.
Cmp_r32_imm(r, v) ==
  Instr("cmp_ri", r, "", v, 32,
        << rex(FALSE, FALSE, FALSE, number(r) >= 8), 129, mod_rm(3, 7, number(r)) >>
          \o to_le_bytes(v, 4))

Mov_r32_r32(dst, src) == Instr("mov_rr", dst, src, 0, 32, opcode_rm_reg(137, dst, src, 4))

\* ------------------------------------------------------------------------
\* wasm.rs: the module IR (types, funcs, code, exports)
\* ------------------------------------------------------------------------
FuncType(params, results) == [params |-> params, results |-> results]
Func(locals, body) == [locals |-> locals, body |-> body]
Export(name, kind, index) == [name |-> name, kind |-> kind, index |-> index]

Empty == [kind |-> "Empty", n |-> 0]
BType(t) == [kind |-> "Type", n |-> 0]
BFuncType(n) == [kind |-> "FuncType", n |-> n]

Op(op) == [op |-> op, x |-> 0, bt |-> Empty]
LocalGet(i) == [op |-> "LocalGet", x |-> i, bt |-> Empty]
I32Const(v) == [op |-> "I32Const", x |-> v, bt |-> Empty]
I64Const(v) == [op |-> "I64Const", x |-> v, bt |-> Empty]
CallOp(f) == [op |-> "Call", x |-> f, bt |-> Empty]
If(bt) == [op |-> "If", x |-> 0, bt |-> bt]

i32 == "i32"
i64 == "i64"

\* tests/wasm/add.wasm and add_with_arg.wasm
ModAdd ==
  [name |-> "add",
   types |-> << FuncType(<< i64, i64 >>, << i64 >>), FuncType(<< i32, i32 >>, << i32 >>),
                FuncType(<< >>, << i64 >>) >>,
   funcs |-> << 0, 1, 2 >>,
   code |-> << Func(<< >>, << LocalGet(0), LocalGet(1), Op("I64Add"), Op("End") >>),
               Func(<< >>, << LocalGet(0), LocalGet(1), Op("I32Add"), Op("End") >>),
               Func(<< >>, << I64Const(10), I64Const(20), Op("I64Add"), Op("End") >>) >>,
   exports |-> << Export("add", "Func", 0), Export("add32", "Func", 1),
                  Export("_start", "Func", 2) >>]

\* tests/wasm/sub.wasm
ModSub ==
  [name |-> "sub",
   types |-> << FuncType(<< i64, i64 >>, << i64 >>), FuncType(<< i32, i32 >>, << i32 >>) >>,
   funcs |-> << 0, 1 >>,
   code |-> << Func(<< >>, << LocalGet(0), LocalGet(1), Op("I64Sub"), Op("End") >>),
               Func(<< >>, << LocalGet(0), LocalGet(1), Op("I32Sub"), Op("End") >>) >>,
   exports |-> << Export("i64sub", "Func", 0), Export("sub", "Func", 1) >>]

\* subtraction with one or both operands immediate
ModSubImm ==
  [name |-> "subimm",
   types |-> << FuncType(<< i64 >>, << i64 >>), FuncType(<< >>, << i64 >>),
                FuncType(<< i32 >>, << i32 >>) >>,
   funcs |-> << 0, 0, 1, 2 >>,
   code |-> << Func(<< >>, << LocalGet(0), I64Const(3), Op("I64Sub"), Op("End") >>),
               Func(<< >>, << I64Const(3), LocalGet(0), Op("I64Sub"), Op("End") >>),
               Func(<< >>, << I64Const(10), I64Const(20), Op("I64Sub"), Op("End") >>),
               Func(<< >>, << I32Const(3), LocalGet(0), Op("I32Sub"), Op("End") >>) >>,
   exports |-> << Export("sub_ri", "Func", 0), Export("sub_ir", "Func", 1),
                  Export("sub_ii", "Func", 2), Export("sub32_ir", "Func", 3) >>]

\* tests/wasm/eq.wasm, and an i32.eq applied to the result of an i32.add
ModEq ==
  [name |-> "eq",
   types |-> << FuncType(<< i64, i64 >>, << i32 >>), FuncType(<< i32, i32 >>, << i32 >>),
                FuncType(<< i32 >>, << i32 >>) >>,
   funcs |-> << 0, 1, 2 >>,
   code |-> << Func(<< >>, << LocalGet(0), LocalGet(1), Op("I64Eq"), Op("End") >>),
               Func(<< >>, << LocalGet(0), LocalGet(1), Op("I32Eq"), Op("End") >>),
               Func(<< >>, << LocalGet(0), I32Const(-1), Op("I32Add"), I32Const(-1),
                              Op("I32Eq"), Op("End") >>) >>,
   exports |-> << Export("i64eq", "Func", 0), Export("i32eq", "Func", 1),
                  Export("dec_is_m1", "Func", 2) >>]

\* tests/wasm/call.wasm
ModCall ==
  [name |-> "call",
   types |-> << FuncType(<< >>, << i64 >>) >>,
   funcs |-> << 0, 0 >>,
   code |-> << Func(<< >>, << I64Const(100), I64Const(100), Op("I64Add"), Op("End") >>),
               Func(<< >>, << CallOp(0), CallOp(0), Op("I64Add"), Op("End") >>) >>,
   exports |-> << Export("f", "Func", 0), Export("_start", "Func", 1) >>]

\* tests/wasm/fib.wasm: fib(0) = 0, fib(1) = 1, fib(n) = fib(n-1) + fib(n-2)
ModFib ==
  [name |-> "fib",
   types |-> << FuncType(<< i64 >>, << i64 >>) >>,
   funcs |-> << 0 >>,
   code |-> << Func(<< >>,
      << LocalGet(0), I64Const(0), Op("I64Eq"), If(BType(i64)),
           I64Const(0),
         Op("Else"),
           LocalGet(0), I64Const(1), Op("I64Eq"), If(BType(i64)),
             I64Const(1),
           Op("Else"),
             LocalGet(0), I64Const(1), Op("I64Sub"), CallOp(0),
             LocalGet(0), I64Const(2), Op("I64Sub"), CallOp(0),
             Op("I64Add"),
           Op("End"),
         Op("End"),
         Op("End") >>) >>,
   exports |-> << Export("fib", "Func", 0) >>]

\* a function without results, an operator outside the subset, calls that
\* cannot be resolved or compiled, an export that has no code, a memory export
ModMisc ==
  [name |-> "misc",
   types |-> << FuncType(<< >>, << >>), FuncType(<< i64, i64 >>, << i64 >>),
                FuncType(<< >>, << i64 >>) >>,
   funcs |-> << 0, 1, 2, 2 >>,
   code |-> << Func(<< >>, << Op("End") >>),
               Func(<< >>, << LocalGet(0), LocalGet(1), Op("I64Mul"), Op("End") >>),
               Func(<< >>, << CallOp(7), Op("End") >>),
               Func(<< >>, << I64Const(1), I64Const(2), CallOp(1), Op("End") >>) >>,
   exports |-> << Export("nop", "Func", 0), Export("mul", "Func", 1),
                  Export("badcall", "Func", 2), Export("callmul", "Func", 3),
                  Export("ghost", "Func", 9), Export("memory", "Memory", 0) >>]

\* if blocks: an else-less if under a value that is still an immediate on the
\* virtual stack, with the condition false (sel0) and true (sel1); an if/else
\* under such a value (ife0, ife1); an if whose block type has a parameter (ifp)
ModBlocks ==
  [name |-> "blocks",
   types |-> << FuncType(<< >>, << i64 >>), FuncType(<< i64 >>, << i64 >>) >>,
   funcs |-> << 0, 0, 0, 0, 0 >>,
   code |-> << Func(<< >>, << I64Const(5), I32Const(0), If(Empty), Op("End"), Op("End") >>),
               Func(<< >>, << I64Const(5), I32Const(1), If(Empty), Op("End"), Op("End") >>),
               Func(<< >>, << I64Const(5), I32Const(0), If(BType(i64)), I64Const(1),
                              Op("Else"), I64Const(2), Op("End"), Op("I64Add"),
                              Op("End") >>),
               Func(<< >>, << I64Const(5), I32Const(1), If(BType(i64)), I64Const(1),
                              Op("Else"), I64Const(2), Op("End"), Op("I64Add"),
                              Op("End") >>),
               Func(<< >>, << I64Const(7), I32Const(1), If(BFuncType(1)), I64Const(1),
                              Op("I64Add"), Op("Else"), I64Const(2), Op("I64Add"),
                              Op("End"), Op("End") >>) >>,
   exports |-> << Export("sel0", "Func", 0), Export("sel1", "Func", 1),
                  Export("ife0", "Func", 2), Export("ife1", "Func", 3),
                  Export("ifp", "Func", 4) >>]

\* a self-recursive function of two parameters and one result:
\* rec2(a, b) = if a == 0 then b else rec2(0, b)
ModRec ==
  [name |-> "rec",
   types |-> << FuncType(<< i64, i64 >>, << i64 >>) >>,
   funcs |-> << 0 >>,
   code |-> << Func(<< >>,
      << LocalGet(0), I64Const(0), Op("I64Eq"), If(BType(i64)),
           LocalGet(1),
         Op("Else"),
           I64Const(0), LocalGet(1), CallOp(0),
         Op("End"),
         Op("End") >>) >>,
   exports |-> << Export("rec2", "Func", 0) >>]

\* operators applied to two constants: an i32 sum that passes the largest i32
\* compared with the smallest i32 (fold32), an i32 difference that passes the
\* smallest i32 compared with the largest (foldsub), an i64 sum within range
\* (fold7), an i64 sum that passes the largest i64 (fold64)
ModFold ==
  [name |-> "fold",
   types |-> << FuncType(<< >>, << i32 >>), FuncType(<< >>, << i64 >>) >>,
   funcs |-> << 0, 0, 0, 1 >>,
   code |-> << Func(<< >>, << I32Const(Half \div 2 - 1), I32Const(1), Op("I32Add"),
                              I32Const(- (Half \div 2)), Op("I32Eq"), Op("End") >>),
               Func(<< >>, << I32Const(- (Half \div 2)), I32Const(1), Op("I32Sub"),
                              I32Const(Half \div 2 - 1), Op("I32Eq"), Op("End") >>),
               Func(<< >>, << I64Const(3), I64Const(4), Op("I64Add"), I64Const(7),
                              Op("I64Eq"), Op("End") >>),
               Func(<< >>, << I64Const(Full \div 2 - 1), I64Const(1), Op("I64Add"),
                              Op("End") >>) >>,
   exports |-> << Export("fold32", "Func", 0), Export("foldsub", "Func", 1),
                  Export("fold7", "Func", 2), Export("fold64", "Func", 3) >>]

\* more live values than scratch registers: nine reads of the parameter
\* summed up (pool), and a constant below eight reads (pool3)
ModPool ==
  [name |-> "pool",
   types |-> << FuncType(<< i64 >>, << i64 >>) >>,
   funcs |-> << 0, 0 >>,
   code |-> << Func(<< >>,
                 << LocalGet(0), LocalGet(0), LocalGet(0), LocalGet(0), LocalGet(0),
                    LocalGet(0), LocalGet(0), LocalGet(0), LocalGet(0),
                    Op("I64Add"), Op("I64Add"), Op("I64Add"), Op("I64Add"),
                    Op("I64Add"), Op("I64Add"), Op("I64Add"), Op("I64Add"),
                    Op("End") >>),
               Func(<< >>,
                 << I64Const(3), LocalGet(0), LocalGet(0), LocalGet(0), LocalGet(0),
                    LocalGet(0), LocalGet(0), LocalGet(0), LocalGet(0),
                    Op("I64Sub"), Op("I64Add"), Op("I64Add"), Op("I64Add"),
                    Op("I64Add"), Op("I64Add"), Op("I64Add"), Op("I64Add"),
                    Op("End") >>) >>,
   exports |-> << Export("pool", "Func", 0), Export("pool3", "Func", 1) >>]

Modules ==
  { ModAdd, ModSub, ModSubImm, ModEq, ModCall, ModFib, ModMisc, ModBlocks, ModRec,
    ModFold, ModPool }

\* ------------------------------------------------------------------------
\* runtime/store.rs and runtime/error.rs
\* ------------------------------------------------------------------------
Ok(v) == [ok |-> TRUE, v |-> v, err |-> "", arg |-> ""]
Err(kind, arg) == [ok |-> FALSE, v |-> << >>, err |-> kind, arg |-> arg]

\* RuntimeError has exactly these variants
RuntimeError == { "ExportNotFound", "FunctionNotFound", "FunctionTypeNotFound" }

\* get_export as it would be if a lookup that finds nothing fell back to the
\* first export instead of failing
get_export_or_first(s, name) ==
  IF \E k \in 1 .. Len(s.exports) : s.exports[k].name = name
    THEN Ok(s.exports[CHOOSE k \in 1 .. Len(s.exports) : s.exports[k].name = name])
    ELSE Ok(s.exports[1])

get_export(s, name) ==
  IF \E k \in 1 .. Len(s.exports) : s.exports[k].name = name
    THEN Ok(s.exports[CHOOSE k \in 1 .. Len(s.exports) : s.exports[k].name = name])
    ELSE Err("ExportNotFound", name)

get_func_type_from_func_index(s, index) ==
  IF index + 1 > Len(s.funcs) THEN Err("FunctionNotFound", ToString(index))
  ELSE IF s.funcs[index + 1] + 1 > Len(s.types) THEN Err("FunctionTypeNotFound", ToString(index))
  ELSE Ok(s.types[s.funcs[index + 1] + 1])

get_code(s, index) ==
  IF index + 1 > Len(s.code) THEN Err("FunctionNotFound", ToString(index)) ELSE Ok(s.code[index + 1])

\* Store::get_func_type is called by the generator but is not defined in store.rs
get_func_type(s, n) ==
  IF n + 1 > Len(s.types) THEN Err("FunctionTypeNotFound", ToString(n)) ELSE Ok(s.types[n + 1])

\* ------------------------------------------------------------------------
\* compiler.rs: the virtual stack
\* ------------------------------------------------------------------------
Imm(n) == [tag |-> "Imm", n |-> n, reg |-> ""]
Reg(r) == [tag |-> "Reg", n |-> 0, reg |-> r]

\* VartualStack::new
VartualStack_new ==
  [stack |-> << >>, unused_regs |-> << "Rdi", "Rsi", "Rdx", "Rcx", "R8", "R9", "R10" >>]

push_data(data) == << Mov_mem_r("R11", 0, data), Add_r64_imm("R11", 8) >>

pop_data(data) == << Add_r64_imm("R11", -8), Mov_r_mem(data, "R11", 0) >>

local_offset(local_index) == 8 * (LOCAL_BASE_COUNT + 1) + local_index * 8

\* the spill loop of get_unused_reg: write entries from the oldest until a
\* register entry is met; expect("stack is empty") panics when there is none
RECURSIVE spill(_, _)
spill(stack, out) ==
  IF stack = << >> THEN [reg |-> "", stack |-> stack, out |-> out, panic |-> TRUE]
  ELSE IF Head(stack).tag = "Imm"
    THEN spill(Tail(stack), out \o << Mov_r64_imm("Rax", Head(stack).n) >> \o push_data("Rax"))
    ELSE [reg |-> Head(stack).reg, stack |-> Tail(stack),
          out |-> out \o push_data(Head(stack).reg), panic |-> FALSE]

\* (an operator that uses a computed record several times takes it as a
\* parameter of a second operator, named with a trailing underscore)
get_unused_reg_(vs, r) ==
  [reg |-> r.reg, vs |-> [vs EXCEPT !.stack = r.stack], out |-> r.out, panic |-> r.panic]

get_unused_reg(vs) ==
  IF vs.unused_regs # << >>
    THEN [reg |-> Head(vs.unused_regs),
          vs |-> [vs EXCEPT !.unused_regs = Tail(vs.unused_regs)],
          out |-> << >>, panic |-> FALSE]
    ELSE get_unused_reg_(vs, spill(vs.stack, << >>))

pop_value_(g) ==
  [value |-> Reg(g.reg), vs |-> g.vs, out |-> g.out \o pop_data(g.reg), panic |-> g.panic]

pop_value(vs) ==
  IF vs.stack # << >>
    THEN [value |-> vs.stack[Len(vs.stack)],
          vs |-> [vs EXCEPT !.stack = SubSeq(vs.stack, 1, Len(vs.stack) - 1)],
          out |-> << >>, panic |-> FALSE]
    ELSE pop_value_(get_unused_reg(vs))

RECURSIVE push_all_loop(_, _, _)
push_all_loop(stack, unused, out) ==
  IF stack = << >> THEN [vs |-> [stack |-> << >>, unused_regs |-> unused], out |-> out]
  ELSE IF Head(stack).tag = "Imm"
    THEN push_all_loop(Tail(stack), unused,
                       out \o << Mov_r64_imm("Rax", Head(stack).n) >> \o push_data("Rax"))
    ELSE push_all_loop(Tail(stack), Append(unused, Head(stack).reg),
                       out \o push_data(Head(stack).reg))

push_all(vs) == push_all_loop(vs.stack, vs.unused_regs, << >>)

\* ------------------------------------------------------------------------
\* compiler.rs: Compiler::compile, one arm per operator
\* ------------------------------------------------------------------------
None == [some |-> FALSE, vs |-> VartualStack_new]
Some(vs) == [some |-> TRUE, vs |-> vs]

FuncEnd ==
  [kind |-> "FuncEnd", address_reserved |-> << >>, start_offset |-> 0,
   block_type |-> Empty, else_vartual_stack |-> None]

LabelEnd(address_reserved, start_offset, block_type, else_vartual_stack) ==
  [kind |-> "End", address_reserved |-> address_reserved, start_offset |-> start_offset,
   block_type |-> block_type, else_vartual_stack |-> else_vartual_stack]

\* what one arm did: the new compile state, the instructions appended at the
\* cursor, the displacement fields written by write_i32, and how the arm ended
\* ("ok", "err" for a returned Err, "panic" for a Rust panic)
Res(vs, stack_count, labels, out, patches, status, err, arg) ==
  [vs |-> vs, stack_count |-> stack_count, labels |-> labels, out |-> out,
   patches |-> patches, status |-> status, err |-> err, arg |-> arg]

Done(vs, stack_count, labels, out, patches) ==
  Res(vs, stack_count, labels, out, patches, "ok", "", "")

Panic(c, msg) == Res(c.vs, c.stack_count, c.labels, << >>, << >>, "panic", msg, "")

\* the patch as it would be if the displacement were measured from the start
\* of the displacement field instead of from its end
Patch_from_field(site, target) == [site |-> site, value |-> target - (site - 4)]

Patch(site, target) == [site |-> site, value |-> target - site]

PushBack(vs, value) == [vs EXCEPT !.stack = Append(@, value)]
\* Release as it would be if a register that is no longer used were dropped
Release_dropping(vs, reg) == vs

Release(vs, reg) == [vs EXCEPT !.unused_regs = Append(@, reg)]

\* the registers that carry the integer arguments of a call, in order
CallArgRegs == << "Rdi", "Rsi", "Rdx", "Rcx", "R8", "R9" >>

\* the parameters of Runtime::call_func_internal, in order
call_func_internal_params == << "self", "index", "result_ptr", "args_num", "args" >>

\* the parameters a compiled function's entry reads: the prologue saves rdi
\* as the runtime pointer and takes rsi as S
compile_func_params == << "self", "sp" >>

compile_Call_(c, instr, func_index, pfs, ft, pa) ==
  IF ~ ft.ok THEN Res(c.vs, c.stack_count, c.labels, << >>, << >>, "err", ft.err, ft.arg)
  ELSE Done(pa.vs, c.stack_count - Len(ft.v.params) + Len(ft.v.results), c.labels,
            pa.out \o
            << Mov_r_mem("Rdi", "Rbp", -8),
               Mov_rr("Rsi", "R11"),
               Mov_r32_imm("Rdx", instr.x),
               IF instr.x = func_index THEN Mov_r64_imm("R10", pfs)
               ELSE Mov_r64_imm("R10", CallFuncInternalAddr),
               Push_r("R11"),
               Call_r("R10"),
               Pop_r("R11"),
               Add_r64_imm("R11", 8 * (Len(ft.v.results) - Len(ft.v.params))) >>,
            << >>)

compile_Call(c, instr, func_index, s, pcur, pfs) ==
  compile_Call_(c, instr, func_index, pfs, get_func_type_from_func_index(s, instr.x),
                push_all(c.vs))

compile_LocalGet_(c, instr, g) ==
  IF g.panic THEN Panic(c, "stack is empty")
  ELSE Done(PushBack(g.vs, Reg(g.reg)), c.stack_count + 1, c.labels,
            g.out \o << Mov_r_mem(g.reg, "Rbp", - local_offset(instr.x)) >>, << >>)

compile_LocalGet(c, instr) == compile_LocalGet_(c, instr, get_unused_reg(c.vs))

\* I32Const pushes `value as i64`, I64Const pushes the value
compile_Const(c, instr) ==
  Done(PushBack(c.vs, Imm(instr.x)), c.stack_count + 1, c.labels, << >>, << >>)

\* the two pop_value calls that open the Add, Sub and Eq arms
Pop2__(p2, p1) ==
  [value1 |-> p1.value, value2 |-> p2.value, vs |-> p1.vs, out |-> p2.out \o p1.out,
   panic |-> p2.panic \/ p1.panic]

Pop2_(p2) == Pop2__(p2, pop_value(p2.vs))

Pop2(vs) == Pop2_(pop_value(vs))

RegOf(v1, v2) == IF v1.tag = "Reg" THEN v1.reg ELSE v2.reg
ImmOf(v1, v2) == IF v1.tag = "Imm" THEN v1.n ELSE v2.n

compile_Add_(c, w, p, v1, v2) ==
  IF p.panic THEN Panic(c, "stack is empty")
  ELSE IF v1.tag = "Imm" /\ v2.tag = "Imm"
    THEN Done(PushBack(p.vs, Imm(S64(v1.n + v2.n))), c.stack_count - 1, c.labels,
              p.out, << >>)
  ELSE IF v1.tag = "Reg" /\ v2.tag = "Reg"
    THEN Done(Release(PushBack(p.vs, Reg(v1.reg)), v2.reg), c.stack_count - 1, c.labels,
              p.out \o << Add_rr(v1.reg, v2.reg, w) >>, << >>)
  ELSE Done(PushBack(p.vs, Reg(RegOf(v1, v2))), c.stack_count - 1, c.labels,
            p.out \o
            (IF w = 32
               THEN << Mov_r32_imm("Rax", S32(ImmOf(v1, v2))),
                       Add_rr(RegOf(v1, v2), "Rax", 32) >>
               ELSE << Mov_r64_imm("Rax", ImmOf(v1, v2)),
                       Add_rr(RegOf(v1, v2), "Rax", 64) >>),
            << >>)

compile_Add__(c, w, p) == compile_Add_(c, w, p, p.value1, p.value2)

compile_Add(c, instr) ==
  compile_Add__(c, IF instr.op = "I32Add" THEN 32 ELSE 64, Pop2(c.vs))

compile_Sub_(c, w, p, v1, v2) ==
  IF p.panic THEN Panic(c, "stack is empty")
  ELSE IF v1.tag = "Imm" /\ v2.tag = "Imm"
    THEN Done(PushBack(p.vs, Imm(S64(v1.n - v2.n))), c.stack_count - 1, c.labels,
              p.out, << >>)
  ELSE IF v1.tag = "Reg" /\ v2.tag = "Reg"
    THEN Done(Release(PushBack(p.vs, Reg(v1.reg)), v2.reg), c.stack_count - 1, c.labels,
              p.out \o << Sub_rr(v1.reg, v2.reg, w) >>, << >>)
  ELSE Done(PushBack(p.vs, Reg(RegOf(v1, v2))), c.stack_count - 1, c.labels,
            p.out \o
            (IF v1.tag = "Reg"
               THEN IF w = 32
                      THEN << Mov_r32_imm("Rax", S32(ImmOf(v1, v2))),
                              Sub_rr(RegOf(v1, v2), "Rax", 32) >>
                      ELSE << Mov_r64_imm("Rax", ImmOf(v1, v2)),
                              Sub_rr(RegOf(v1, v2), "Rax", 64) >>
               ELSE IF w = 32
                      THEN << Mov_r32_imm("Rax", S32(ImmOf(v1, v2))),
                              Sub_rr("Rax", RegOf(v1, v2), 32),
                              Mov_r32_r32(RegOf(v1, v2), "Rax") >>
                      ELSE << Mov_r64_imm("Rax", ImmOf(v1, v2)),
                              Sub_rr("Rax", RegOf(v1, v2), 64),
                              Mov_rr(RegOf(v1, v2), "Rax") >>),
            << >>)

compile_Sub__(c, w, p) == compile_Sub_(c, w, p, p.value1, p.value2)

compile_Sub(c, instr) ==
  compile_Sub__(c, IF instr.op = "I32Sub" THEN 32 ELSE 64, Pop2(c.vs))

compile_Eq_(c, w, p, v1, v2) ==
  IF p.panic THEN Panic(c, "stack is empty")
  ELSE IF v1.tag = "Imm" /\ v2.tag = "Imm"
    THEN Done(PushBack(p.vs, Imm(IF v1.n = v2.n THEN 1 ELSE 0)), c.stack_count - 1,
              c.labels, p.out, << >>)
  ELSE IF v1.tag = "Reg" /\ v2.tag = "Reg"
    THEN Done(Release(PushBack(p.vs, Reg(v1.reg)), v2.reg), c.stack_count - 1, c.labels,
              p.out \o
              (IF w = 32
                 THEN << Cmp_rr(v1.reg, v2.reg, 32), Sete_al, Movzx_eax_al,
                         Mov_r32_r32(v1.reg, "Rax") >>
                 ELSE << Cmp_rr(v1.reg, v2.reg, 64), Sete_al, Movzx_eax_al,
                         Mov_rr(v1.reg, "Rax") >>),
              << >>)
  ELSE Done(PushBack(p.vs, Reg(RegOf(v1, v2))), c.stack_count - 1, c.labels,
            p.out \o
            (IF w = 32
               THEN << Mov_r32_imm("Rax", S32(ImmOf(v1, v2))),
                       Cmp_rr(RegOf(v1, v2), "Rax", 32), Sete_al,
                       Movzx_eax_al, Mov_r32_r32(RegOf(v1, v2), "Rax") >>
               ELSE << Mov_r64_imm("Rax", ImmOf(v1, v2)),
                       Cmp_rr(RegOf(v1, v2), "Rax", 64), Sete_al,
                       Movzx_eax_al, Mov_rr(RegOf(v1, v2), "Rax") >>),
            << >>)

\* the Eq arm selects its 32-bit branch by comparing instr with I32Add
compile_Eq__(c, w, p) == compile_Eq_(c, w, p, p.value1, p.value2)

compile_Eq(c, instr) ==
  compile_Eq__(c, IF instr.op = "I32Add" THEN 32 ELSE 64, Pop2(c.vs))

\* the code of the If arm and the virtual stack after it
If_out(p) ==
  p.out \o
  (IF p.value.tag = "Imm"
     THEN << Mov_r32_imm("Rax", S32(p.value.n)), Cmp_r32_imm("Rax", 0), Je(0) >>
     ELSE << Cmp_r32_imm(p.value.reg, 0), Je(0) >>)

If_vs(p) == IF p.value.tag = "Imm" THEN p.vs ELSE Release(p.vs, p.value.reg)

compile_If_(c, instr, pcur, p, out, vs, ft) ==
  IF p.panic THEN Panic(c, "stack is empty")
  ELSE IF ~ ft.ok THEN Res(vs, c.stack_count, c.labels, out, << >>, "err", ft.err, ft.arg)
  ELSE Done(vs, c.stack_count - 1,
            Append(c.labels,
                   LabelEnd(<< pcur + SumLen(out) >>,
                            c.stack_count - 1 - Len(ft.v.params), instr.bt, Some(vs))),
            out, << >>)

compile_If__(c, instr, s, pcur, p) ==
  compile_If_(c, instr, pcur, p, If_out(p), If_vs(p),
              IF instr.bt.kind = "FuncType" THEN get_func_type(s, instr.bt.n)
              ELSE Ok(FuncType(<< >>, << >>)))

compile_If(c, instr, s, pcur) == compile_If__(c, instr, s, pcur, pop_value(c.vs))

compile_Else_(c, label, out, here) ==
  IF label.kind # "End" THEN Panic(c, "unreachable")
  ELSE IF ~ label.else_vartual_stack.some THEN Panic(c, "unwrap on None")
  ELSE Done(label.else_vartual_stack.vs, label.start_offset,
            [c.labels EXCEPT ![Len(c.labels)] =
               [label EXCEPT !.address_reserved = Tail(Append(@, here)),
                             !.else_vartual_stack = None]],
            out, << Patch(label.address_reserved[1], here) >>)

compile_Else__(c, pcur, out) ==
  compile_Else_(c, c.labels[Len(c.labels)], out, pcur + SumLen(out))

compile_Else(c, pcur) ==
  IF c.labels = << >> THEN Panic(c, "unwrap on None")
  ELSE compile_Else__(c, pcur, push_all(c.vs).out \o << Jmp(0) >>)

\* the loop `for _ in 0..result_len.min(7)` of the End arm
RECURSIVE end_pop_loop(_, _, _)
end_pop_step(k, out, g) ==
  IF g.panic THEN [vs |-> g.vs, out |-> out, panic |-> TRUE]
  ELSE end_pop_loop(k - 1, [g.vs EXCEPT !.stack = << Reg(g.reg) >> \o @],
                    out \o g.out \o pop_data(g.reg))

end_pop_loop(k, vs, out) ==
  IF k = 0 THEN [vs |-> vs, out |-> out, panic |-> FALSE]
  ELSE end_pop_step(k, out, get_unused_reg(vs))

\* the loop `for _ in (7..result_len).rev()` of the End arm
RECURSIVE end_copy_loop(_, _)
end_copy_loop(k, offset) ==
  IF k <= 0 THEN << >>
  ELSE << Mov_r_mem("Rax", "R11", offset) >> \o push_data("Rax") \o end_copy_loop(k - 1, offset)

Min(a, b) == IF a < b THEN a ELSE b

Patches(address_reserved, here) ==
  [k \in 1 .. Len(address_reserved) |-> Patch(address_reserved[k], here)]

\* the part of the End arm after the `continue`
end_merge(c, label, labels, pa, patches, result_len, relation, lp) ==
  IF lp.panic THEN Panic(c, "stack is empty")
  ELSE Done(lp.vs, label.start_offset + result_len, labels,
            pa.out \o lp.out \o
            (IF result_len > 7
               THEN << Add_r64_imm("R11", - relation + 7 * 8) >> \o
                    end_copy_loop(result_len - 7, relation - result_len * 8)
               ELSE << >>),
            patches)

compile_End_(c, label, labels, pa, patches, ft, result_len) ==
  IF ~ ft.ok
    THEN Res(pa.vs, c.stack_count, labels, pa.out, patches, "err", ft.err, ft.arg)
  ELSE IF result_len = c.stack_count - label.start_offset
    THEN Done(pa.vs, c.stack_count, labels, pa.out, patches)
  ELSE end_merge(c, label, labels, pa, patches, result_len,
                 (c.stack_count - label.start_offset) * 8,
                 end_pop_loop(Min(result_len, 7), pa.vs, << >>))

compile_End__(c, label, labels, pa, patches, ft) ==
  compile_End_(c, label, labels, pa, patches, ft,
               IF label.block_type.kind = "FuncType" THEN Len(ft.v.results)
               ELSE IF label.block_type.kind = "Type" THEN 1 ELSE 0)

compile_End___(c, s, pcur, label, pa) ==
  IF label.kind = "FuncEnd"
    THEN Done(c.vs, c.stack_count, SubSeq(c.labels, 1, Len(c.labels) - 1), << >>,
              Patches(label.address_reserved, pcur))
    ELSE compile_End__(c, label, SubSeq(c.labels, 1, Len(c.labels) - 1), pa,
                       Patches(label.address_reserved, pcur + SumLen(pa.out)),
                       IF label.block_type.kind = "FuncType"
                         THEN get_func_type(s, label.block_type.n)
                         ELSE Ok(FuncType(<< >>, << >>)))

compile_End(c, s, pcur) ==
  IF c.labels = << >> THEN Panic(c, "unwrap on None")
  ELSE compile_End___(c, s, pcur, c.labels[Len(c.labels)], push_all(c.vs))

\* the match of Compiler::compile on one operator
compile(c, instr, func_index, s, pcur, pfs) ==
  CASE instr.op = "Call" -> compile_Call(c, instr, func_index, s, pcur, pfs)
    [] instr.op = "LocalGet" -> compile_LocalGet(c, instr)
    [] instr.op \in {"I32Const", "I64Const"} -> compile_Const(c, instr)
    [] instr.op \in {"I32Add", "I64Add"} -> compile_Add(c, instr)
    [] instr.op \in {"I32Sub", "I64Sub"} -> compile_Sub(c, instr)
    [] instr.op \in {"I32Eq", "I64Eq"} -> compile_Eq(c, instr)
    [] instr.op = "If" -> compile_If(c, instr, s, pcur)
    [] instr.op = "Else" -> compile_Else(c, pcur)
    [] instr.op = "End" -> compile_End(c, s, pcur)
    [] OTHER -> Panic(c, "unimplemented instruction")

\* ------------------------------------------------------------------------
\* State
\* ------------------------------------------------------------------------
VARIABLES
  store,          \* Runtime.store: the module handed to Runtime::init
  p_current,      \* Compiler.p_current: the code-buffer write cursor
  p_func_start,   \* Compiler.p_func_start
  func_cache,     \* Compiler.func_cache: function index -> entry address
  code,           \* the code buffer: address -> instruction written there
  phase,          \* "host", "compile", "run", "back" or "aborted"
  req,            \* the call_func_by_name request being served
  cs,             \* the locals of compile_func / compile while a body is compiled
  regs,           \* machine registers
  zf,             \* the zero flag
  mem,            \* data memory written or read so far: address -> value
  pc,             \* address of the next instruction to execute
  clobbered,      \* emitted code has stored outside its own host-stack frames
  handle,         \* the first non-zero value a nested runtime call returned in rax
  result          \* what the last call_func_by_name returned to the host

vars ==
  << store, p_current, p_func_start, func_cache, code, phase, req, cs, regs, zf, mem, pc,
     clobbered, handle, result >>

NoFcn == [x \in {} |-> 0]

NoReq == [name |-> "", args |-> << >>, index |-> 0]

NoCs ==
  [func_index |-> 0, pos |-> 0, vs |-> VartualStack_new, stack_count |-> 0,
   labels |-> << >>, start |-> 0]

Regs0 == [r \in RegNames |-> 0]

\* values of the host-visible result
\* (name, args: the call it answers; stage: how far that call got)
NoCall == [name |-> "", args |-> << >>, stage |-> ""]
NoResult == [kind |-> "None", vals |-> << >>, err |-> "", arg |-> ""] @@ NoCall
ROk(vals) == [kind |-> "Ok", vals |-> vals, err |-> "", arg |-> ""]
RErr(err, arg) == [kind |-> "Err", vals |-> << >>, err |-> err, arg |-> arg]
RAbort(why) == [kind |-> "Abort", vals |-> << >>, err |-> why, arg |-> ""]

Value(ty, v) == [ty |-> ty, v |-> v]

\* Value::to_u64: an i32 is sign-extended by `as u64`
to_u64(val) == U64(val.v)

\* Value::from_u64
from_u64(bytes, value_type) ==
  IF value_type = i32 THEN Value(i32, S32(bytes)) ELSE Value(i64, S64(bytes))

\* Runtime::init: Store::new and Compiler::new
Init ==
  /\ store \in Modules
  /\ p_current = p_start
  /\ p_func_start = p_start
  /\ func_cache = NoFcn
  /\ code = NoFcn
  /\ phase = "host"
  /\ req = NoReq
  /\ cs = NoCs
  /\ regs = Regs0
  /\ zf = FALSE
  /\ mem = NoFcn
  /\ pc = 0
  /\ clobbered = FALSE
  /\ handle = 0
  /\ result = NoResult

\* ------------------------------------------------------------------------
\* Writing into the code buffer
\* ------------------------------------------------------------------------
RECURSIVE Place(_, _)
Place(out, at) ==
  IF out = << >> THEN NoFcn
  ELSE (at :> Head(out)) @@ Place(Tail(out), at + Len(Head(out).bytes))

\* Compiler::write_i32(site - 4, value): the four bytes before `site` are the
\* displacement field of the jump that ends at `site`
write_i32(buf, patch) ==
  LET a == CHOOSE a \in DOMAIN buf : a + Len(buf[a].bytes) = patch.site
  IN [buf EXCEPT ![a] =
        [@ EXCEPT !.imm = patch.value,
                  !.bytes = SubSeq(@, 1, Len(@) - 4) \o to_le_bytes(patch.value, 4)]]

RECURSIVE write_all(_, _)
write_all(buf, patches) ==
  IF patches = << >> THEN buf ELSE write_all(write_i32(buf, Head(patches)), Tail(patches))

\* push_code as it would be if every compilation wrote from the base of the
\* region instead of from the cursor
push_code_from_base(buf, at, out) == Place(out, p_start) @@ buf

\* Compiler::push_code for a list of instructions: every byte is written at
\* the cursor and the cursor advances, without any check against the capacity
push_code(buf, at, out) == Place(out, at) @@ buf

\* ------------------------------------------------------------------------
\* runtime.rs: call_func_by_name, call_func_by_index; compiler.rs: compile_func
\* ------------------------------------------------------------------------
ArgVals == { 10, 20 }

Names(s) == { s.exports[k].name : k \in 1 .. Len(s.exports) } \cup { "nosuch" }

\* the argument lists the host passes: one value per declared parameter
ArgLists(s, name) ==
  LET e == get_export(s, name)
      ft == get_func_type_from_func_index(s, e.v.index)
  IN IF e.ok /\ e.v.kind = "Func" /\ ft.ok
       THEN { [k \in 1 .. Len(ft.v.params) |-> Value(ft.v.params[k], v[k])] :
                v \in [1 .. Len(ft.v.params) -> ArgVals] }
       ELSE { << >> }

Reverse(q) == [k \in 1 .. Len(q) |-> q[Len(q) + 1 - k]]

\* System-V: the third and later integer arguments
ArgRegs == << "Rdx", "Rcx", "R8", "R9" >>

\* `code(result, self, args[0], ...)` after args.reverse(): the first argument
\* register holds the freshly allocated result buffer, the second the runtime
EntryRegs(args) ==
  [r \in RegNames |->
     IF r = "Rdi" THEN ResultPtr
     ELSE IF r = "Rsi" THEN RuntimePtr
     ELSE IF r = "Rsp" THEN EntryRsp
     ELSE IF \E k \in 1 .. Len(args) : k <= Len(ArgRegs) /\ ArgRegs[k] = r
       THEN to_u64(Reverse(args)[CHOOSE k \in 1 .. Len(args) : ArgRegs[k] = r])
     ELSE 0]

Enter(entry, args) ==
  /\ regs' = EntryRegs(args)
  /\ mem' = (EntryRsp :> HostRet)
  /\ pc' = entry
  /\ zf' = FALSE
  /\ clobbered' = FALSE
  /\ handle' = 0
  /\ phase' = "run"

\* back in the host with nothing running
Idle ==
  /\ regs' = Regs0
  /\ mem' = NoFcn
  /\ pc' = 0
  /\ zf' = FALSE
  /\ clobbered' = FALSE
  /\ handle' = 0
  /\ req' = NoReq
  /\ cs' = NoCs

ReturnToHost(r, name, args, stage) ==
  /\ result' = r @@ [name |-> name, args |-> args, stage |-> stage]
  /\ phase' = IF r.kind = "Abort" THEN "aborted" ELSE "host"
  /\ Idle

\* the prologue emitted by compile_func for a function of n parameters
RECURSIVE copy_params(_)
copy_params(i) ==
  IF i = 0 THEN << >>
  ELSE << Mov_r_mem("Rax", "R11", - (i * 8)), Push_r("Rax") >> \o copy_params(i - 1)

\* the prologue as it would be without the padding for an odd parameter count
prologue_unpadded(n) ==
  << Push_r("Rbp"), Mov_rr("Rbp", "Rsp"), Push_r("Rdi"), Mov_rr("R11", "Rsi") >>
    \o copy_params(n)
    \o << Add_r64_imm("R11", -8 * n) >>

prologue(n) ==
  << Push_r("Rbp"), Mov_rr("Rbp", "Rsp"), Push_r("Rdi"), Mov_rr("R11", "Rsi") >>
    \o copy_params(n)
    \o << Add_r64_imm("R11", -8 * n) >>
    \o (IF n % 2 = 1 THEN << Add_r64_imm("Rsp", -8) >> ELSE << >>)

\* the epilogue emitted by compile_func after the body
RECURSIVE move_results(_, _)
move_results(k, offset) ==
  IF k = 0 THEN << >>
  ELSE << Mov_r_mem("Rax", "R11", offset) >> \o push_data("Rax") \o move_results(k - 1, offset)

epilogue(result_len, stack_count) ==
  (IF result_len # 0 /\ result_len # stack_count
     THEN << Add_r64_imm("R11", -8 * stack_count) >>
            \o move_results(result_len, 8 * (stack_count - result_len))
     ELSE << >>)
    \o << Mov_r64_imm("Rax", 0), Mov_rr("Rsp", "Rbp"), Pop_r("Rbp"), ret >>

\* call_func_by_name up to the point where the target is invoked or, on a
\* cache miss, up to the end of compile_func's prologue
call_func_by_name(name, args) ==
  LET e == get_export(store, name)
      index == e.v.index
      func == get_code(store, index)
      func_type == get_func_type_from_func_index(store, index)
      out == prologue(Len(func_type.v.params))
  IN /\ phase = "host"
     /\ p_current <= p_start + CODE_AREA_SIZE
     /\ UNCHANGED << store, p_func_start, func_cache >>
     /\ IF ~ e.ok
          THEN /\ ReturnToHost(RErr(e.err, e.arg), name, args, "resolve")
               /\ UNCHANGED << p_current, code >>
        ELSE IF e.v.kind # "Func"
          THEN /\ ReturnToHost(RErr("Export kind is not a function", name), name, args,
                               "resolve")
               /\ UNCHANGED << p_current, code >>
        ELSE IF index \in DOMAIN func_cache
          THEN /\ Enter(func_cache[index], args)
               /\ req' = [name |-> name, args |-> args, index |-> index]
               /\ result' = NoResult
               /\ UNCHANGED << p_current, code, cs >>
        ELSE IF ~ func.ok
          THEN /\ ReturnToHost(RErr(func.err, func.arg), name, args, "compile")
               /\ UNCHANGED << p_current, code >>
        ELSE IF ~ func_type.ok
          THEN /\ ReturnToHost(RErr(func_type.err, func_type.arg), name, args, "compile")
               /\ UNCHANGED << p_current, code >>
        ELSE /\ code' = push_code(code, p_current, out)
             /\ p_current' = p_current + SumLen(out)
             /\ IF func.v.locals # << >>
                  THEN ReturnToHost(RAbort("local variables are not supported yet"),
                                    name, args, "compile")
                  ELSE /\ phase' = "compile"
                       /\ req' = [name |-> name, args |-> args, index |-> index]
                       /\ cs' = [func_index |-> index, pos |-> 1, vs |-> VartualStack_new,
                                 stack_count |-> 0, labels |-> << FuncEnd >>,
                                 start |-> p_current]
                       /\ result' = NoResult
                       /\ UNCHANGED << regs, mem, pc, zf, clobbered, handle >>

\* one iteration of `for instr in &func.body` in Compiler::compile, given
\* what the arm of the operator did
CompileApply(r) ==
  /\ UNCHANGED << store, p_func_start, func_cache >>
  /\ IF r.status = "panic"
       THEN /\ ReturnToHost(RAbort(r.err), req.name, req.args, "compile")
            /\ UNCHANGED << p_current, code >>
       ELSE /\ code' = write_all(push_code(code, p_current, r.out), r.patches)
            /\ p_current' = p_current + SumLen(r.out)
            /\ IF r.status = "err"
                 THEN ReturnToHost(RErr(r.err, r.arg), req.name, req.args, "compile")
                 ELSE /\ cs' = [cs EXCEPT !.pos = @ + 1, !.vs = r.vs,
                                          !.stack_count = r.stack_count,
                                          !.labels = r.labels]
                      /\ UNCHANGED << phase, req, regs, mem, pc, zf, clobbered, handle,
                                      result >>

\* `n + m` and `n - m` on two immediates are i64 arithmetic of the compiler
\* itself: outside the range of i64 they wrap in a build without overflow
\* checks and panic in a build with them
TopTwoImm(stack) ==
  /\ Len(stack) >= 2
  /\ stack[Len(stack)].tag = "Imm"
  /\ stack[Len(stack) - 1].tag = "Imm"

FoldResult(instr, stack) ==
  IF instr.op \in { "I32Add", "I64Add" }
    THEN stack[Len(stack) - 1].n + stack[Len(stack)].n
    ELSE stack[Len(stack) - 1].n - stack[Len(stack)].n

fold_overflows(instr, stack) ==
  /\ instr.op \in { "I32Add", "I64Add", "I32Sub", "I64Sub" }
  /\ TopTwoImm(stack)
  /\ FoldResult(instr, stack) # S64(FoldResult(instr, stack))

CompileStep ==
  /\ phase = "compile"
  /\ cs.pos <= Len(store.code[cs.func_index + 1].body)
  /\ \/ CompileApply(compile([vs |-> cs.vs, stack_count |-> cs.stack_count,
                              labels |-> cs.labels],
                             store.code[cs.func_index + 1].body[cs.pos], cs.func_index,
                             store, p_current, p_func_start))
     \/ /\ fold_overflows(store.code[cs.func_index + 1].body[cs.pos], cs.vs.stack)
        /\ CompileApply(Panic([vs |-> cs.vs, stack_count |-> cs.stack_count,
                               labels |-> cs.labels],
                              "attempt to add with overflow"))

\* extract_func as it would be if installing an entry dropped the others
extract_func_evicting(cache, index, func_start) == (index :> func_start)

\* Compiler::extract_func
extract_func(cache, index, func_start) == (index :> func_start) @@ cache

\* the end of compile_func (push_all and the epilogue), extract_func, and the
\* invocation of the fresh code by call_func_by_index
CompileEnd(out) ==
  /\ code' = push_code(code, p_current, out)
  /\ p_current' = p_current + SumLen(out)
  /\ func_cache' = extract_func(func_cache, cs.func_index, p_func_start)
  /\ p_func_start' = p_current'
  /\ Enter(p_func_start, req.args)
  /\ cs' = NoCs
  /\ UNCHANGED << store, req, result >>

CompileFinish ==
  /\ phase = "compile"
  /\ cs.pos > Len(store.code[cs.func_index + 1].body)
  /\ CompileEnd(push_all(cs.vs).out \o
                epilogue(Len(get_func_type_from_func_index(store, cs.func_index).v.results),
                         cs.stack_count))

\* ------------------------------------------------------------------------
\* The machine that runs the emitted code
\* ------------------------------------------------------------------------
StackLimit == EntryRsp - 8 * MaxStackSlots

Out(r, m, z, p, cl, h) ==
  [regs |-> r, mem |-> m, zf |-> z, pc |-> p, clob |-> cl, halt |-> h]

\* a slot never written by this run holds whatever the process left there
ReadSet(m, a) == IF a \in DOMAIN m THEN { m[a] } ELSE Garbage

Width(w, v) == IF w = 32 THEN U32(v) ELSE U64(v)

\* the outcomes of executing instruction i, whose successor is at `next`
exec(i, next, r, m, z) ==
  CASE i.op = "push" ->
         LET sp == r["Rsp"] - 8
         IN IF sp < StackLimit THEN { Out(r, m, z, next, FALSE, "fault") }
            ELSE { Out([r EXCEPT !["Rsp"] = sp], (sp :> r[i.dst]) @@ m, z, next, FALSE, "") }
    [] i.op = "pop" ->
         { Out([r EXCEPT ![i.dst] = v, !["Rsp"] = r["Rsp"] + 8],
               (r["Rsp"] :> v) @@ m, z, next, FALSE, "") : v \in ReadSet(m, r["Rsp"]) }
    [] i.op = "mov_rr" ->
         { Out([r EXCEPT ![i.dst] = Width(i.w, r[i.src])], m, z, next, FALSE, "") }
    [] i.op = "mov_ri" ->
         { Out([r EXCEPT ![i.dst] = Width(i.w, i.imm)], m, z, next, FALSE, "") }
    [] i.op = "load" ->
         LET a == U64(r[i.src] + i.imm)
         IN { Out([r EXCEPT ![i.dst] = v], (a :> v) @@ m, z, next, FALSE, "") :
                v \in ReadSet(m, a) }
    [] i.op = "store" ->
         LET a == U64(r[i.dst] + i.imm)
         IN { Out(r, (a :> r[i.src]) @@ m, z, next, a > EntryRsp, "") }
    [] i.op = "add_rr" ->
         { Out([r EXCEPT ![i.dst] = Width(i.w, r[i.dst] + r[i.src])], m, z, next, FALSE, "") }
    [] i.op = "add_ri" ->
         { Out([r EXCEPT ![i.dst] = U64(r[i.dst] + i.imm)], m, z, next, FALSE, "") }
    [] i.op = "sub_rr" ->
         { Out([r EXCEPT ![i.dst] = Width(i.w, r[i.dst] - r[i.src])], m, z, next, FALSE, "") }
    [] i.op = "cmp_rr" ->
         { Out(r, m, Width(i.w, r[i.dst]) = Width(i.w, r[i.src]), next, FALSE, "") }
    [] i.op = "cmp_ri" ->
         { Out(r, m, Width(i.w, r[i.dst]) = Width(i.w, i.imm), next, FALSE, "") }
    [] i.op = "sete" ->
         { Out([r EXCEPT !["Rax"] = @ - (@ % 256) + B(z)], m, z, next, FALSE, "") }
    [] i.op = "movzx" ->
         { Out([r EXCEPT !["Rax"] = @ % 256], m, z, next, FALSE, "") }
    [] i.op = "je" ->
         { Out(r, m, z, IF z THEN next + i.imm ELSE next, FALSE, "") }
    [] i.op = "jmp" ->
         { Out(r, m, z, next + i.imm, FALSE, "") }
    [] i.op = "call" ->
         LET sp == r["Rsp"] - 8
         IN IF r[i.dst] = CallFuncInternalAddr
              \* Runtime::call_func_internal(self, index, result_ptr, args_num, args)
              \* entered with rdi = the frame's saved first argument, rsi = S and
              \* rdx = the function index: it dereferences those as a Runtime and
              \* as pointers, which is undefined; it faults or returns anything
              THEN { Out(r, m, z, next, FALSE, "fault") } \cup
                   { Out([r EXCEPT !["Rax"] = v], m, z, next, FALSE, "") : v \in Garbage }
            ELSE IF sp < StackLimit THEN { Out(r, m, z, next, FALSE, "fault") }
            ELSE { Out([r EXCEPT !["Rsp"] = sp], (sp :> next) @@ m, z, r[i.dst], FALSE, "") }
    [] i.op = "ret" ->
         { Out([r EXCEPT !["Rsp"] = r["Rsp"] + 8], (r["Rsp"] :> v) @@ m, z, v, FALSE,
               IF v = HostRet THEN "host" ELSE "") : v \in ReadSet(m, r["Rsp"]) }

IsInternalCall(i, r) == i.op = "call" /\ r[i.dst] = CallFuncInternalAddr

\* one instruction of emitted code
Step ==
  /\ phase = "run"
  /\ UNCHANGED << store, p_current, p_func_start, func_cache, code >>
  /\ IF pc \notin DOMAIN code
       THEN ReturnToHost(RAbort("fault"), req.name, req.args, "run")
       ELSE \E o \in exec(code[pc], pc + Len(code[pc].bytes), regs, mem, zf) :
              IF o.halt = "fault"
                THEN ReturnToHost(RAbort("fault"), req.name, req.args, "run")
                ELSE /\ regs' = o.regs
                     /\ mem' = o.mem
                     /\ zf' = o.zf
                     /\ pc' = o.pc
                     /\ clobbered' = (clobbered \/ o.clob)
                     /\ handle' = IF handle = 0 /\ IsInternalCall(code[pc], regs)
                                    THEN o.regs["Rax"] ELSE handle
                     /\ phase' = IF o.halt = "host" THEN "back" ELSE "run"
                     /\ UNCHANGED << req, cs, result >>

\* the rest of call_func_by_index and of call_func_by_name once the emitted
\* code has returned: `*result` and `*result.add(1)` are read from the buffer
\* that alloc returned, which the emitted code never wrote
Return ==
  LET func_type == get_func_type_from_func_index(store, req.index)
  IN /\ phase = "back"
     /\ UNCHANGED << store, p_current, p_func_start, func_cache, code >>
     /\ \E status \in ReadSet(mem, ResultPtr), value \in ReadSet(mem, ResultPtr + 8) :
          \E r \in
            (IF clobbered THEN { RAbort("fault") } ELSE { }) \cup
            (IF status # 0
               \* the slot is reinterpreted as an anyhow::Error and downcast
               THEN { RAbort("fault"), RErr("Something went wrong", "") }
                      \cup { RErr(e, "") : e \in RuntimeError }
             ELSE IF ~ func_type.ok THEN { RErr(func_type.err, func_type.arg) }
             ELSE IF func_type.v.results = << >>
               THEN { RAbort("index out of bounds") }
             ELSE { ROk(<< from_u64(value, func_type.v.results[1]) >>) }) :
            ReturnToHost(r, req.name, req.args, "return")

Next ==
  \/ \E name \in Names(store) : \E args \in ArgLists(store, name) :
       call_func_by_name(name, args)
  \/ CompileStep
  \/ CompileFinish
  \/ Step
  \/ Return

Spec == Init /\ [][Next]_vars

\* ------------------------------------------------------------------------
\* The encoder on its own: one instruction is assembled into an empty buffer
\* ------------------------------------------------------------------------
\* displacements around the limits of the 8-bit form
Offsets == { 0, 1, -1, 8, -8, 127, 128, -128, -129, 1000, -1000 }

Request(name, args, index) == [name |-> name, args |-> args, index |-> index]

\* the instructions of assembler.rs that take a register or a memory operand
MemRequests ==
  { Request(n, << b, r >>, o) :
      n \in { "mov_r_mem", "mov_mem_r" }, b \in RegNames, r \in RegNames, o \in Offsets }
  \cup { Request("push_mem", << b >>, o) : b \in RegNames, o \in Offsets }

RegRequests ==
  { Request(n, << a, b >>, 0) :
      n \in { "mov_rr", "add64", "add32", "sub64", "sub32", "cmp64", "cmp32" },
      a \in RegNames, b \in RegNames }
  \cup { Request(n, << a >>, 0) : n \in { "push", "pop", "call" }, a \in RegNames }
  \cup { Request(n, << a >>, v) :
           n \in { "mov_r32_imm", "mov_r64_imm", "add_imm" }, a \in RegNames, v \in { 1, 300 } }
  \cup { Request("movzx", << a, b >>, 0) :
           a \in RegNames, b \in { Register8[i] : i \in 1 .. 8 } }

EncRequests == MemRequests \cup RegRequests

\* the method of assembler.rs a request stands for
Assemble(r) ==
  CASE r.name = "mov_r_mem" -> Mov_r_mem(r.args[2], r.args[1], r.index)
    [] r.name = "mov_mem_r" -> Mov_mem_r(r.args[1], r.index, r.args[2])
    [] r.name = "push_mem" -> Push_mem(r.args[1], r.index)
    [] r.name = "mov_rr" -> Mov_rr(r.args[1], r.args[2])
    [] r.name = "add64" -> Add_rr(r.args[1], r.args[2], 64)
    [] r.name = "add32" -> Add_rr(r.args[1], r.args[2], 32)
    [] r.name = "sub64" -> Sub_rr(r.args[1], r.args[2], 64)
    [] r.name = "sub32" -> Sub_rr(r.args[1], r.args[2], 32)
    [] r.name = "cmp64" -> Cmp_rr(r.args[1], r.args[2], 64)
    [] r.name = "cmp32" -> Cmp_rr(r.args[1], r.args[2], 32)
    [] r.name = "push" -> Push_r(r.args[1])
    [] r.name = "pop" -> Pop_r(r.args[1])
    [] r.name = "call" -> Call_r(r.args[1])
    [] r.name = "mov_r32_imm" -> Mov_r32_imm(r.args[1], r.index)
    [] r.name = "mov_r64_imm" -> Mov_r64_imm(r.args[1], r.index)
    [] r.name = "add_imm" -> Add_r64_imm(r.args[1], r.index)
    [] r.name = "movzx" -> Movzx_r32_r8(r.args[1], r.args[2])

\* a fresh compiler and the instruction to assemble
InitEnc ==
  /\ store = ModAdd
  /\ p_current = p_start
  /\ p_func_start = p_start
  /\ func_cache = NoFcn
  /\ code = NoFcn
  /\ phase = "host"
  /\ req \in EncRequests
  /\ cs = NoCs
  /\ regs = Regs0
  /\ zf = FALSE
  /\ mem = NoFcn
  /\ pc = 0
  /\ clobbered = FALSE
  /\ handle = 0
  /\ result = NoResult

\* push_code(&instruction's bytes)
Encode ==
  /\ code = NoFcn
  /\ code' = push_code(code, p_current, << Assemble(req) >>)
  /\ p_current' = p_current + SumLen(<< Assemble(req) >>)
  /\ UNCHANGED << store, p_func_start, func_cache, phase, req, cs, regs, zf, mem, pc,
                  clobbered, handle, result >>

NextEnc == Encode

SpecEnc == InitEnc /\ [][NextEnc]_vars

\* ------------------------------------------------------------------------
\* Properties
\* ------------------------------------------------------------------------
\* a call_func_by_name has ended; `result` is what the host got
Returned == phase \in { "host", "aborted" } /\ result.kind # "None"

I32(v) == Value(i32, S32(v))
I64(v) == Value(i64, S64(v))

Arg(k) == result.args[k].v

\* C1: calling add / add32 of the add module through call_func_by_name
\* returns exactly one value, a + b at the operator's width, and the
\* constant variant _start returns I64(30).
C1_AddReturnsSum ==
  (store.name = "add" /\ Returned) =>
    CASE result.name = "add" -> result = ROk(<< I64(Arg(1) + Arg(2)) >>) @@ result
      [] result.name = "add32" -> result = ROk(<< I32(Arg(1) + Arg(2)) >>) @@ result
      [] result.name = "_start" -> result = ROk(<< I64(30) >>) @@ result
      [] OTHER -> TRUE

\* C2: i64.sub and i32.sub return first operand minus second operand, for
\* operands in registers (i64sub, sub), a register and an immediate (sub_ri),
\* an immediate and a register (sub_ir, sub32_ir) and two immediates (sub_ii).
C2_SubReturnsDifference ==
  (store.name \in { "sub", "subimm" } /\ Returned) =>
    CASE result.name = "i64sub" -> result = ROk(<< I64(Arg(1) - Arg(2)) >>) @@ result
      [] result.name = "sub" -> result = ROk(<< I32(Arg(1) - Arg(2)) >>) @@ result
      [] result.name = "sub_ri" -> result = ROk(<< I64(Arg(1) - 3) >>) @@ result
      [] result.name = "sub_ir" -> result = ROk(<< I64(3 - Arg(1)) >>) @@ result
      [] result.name = "sub_ii" -> result = ROk(<< I64(10 - 20) >>) @@ result
      [] result.name = "sub32_ir" -> result = ROk(<< I32(3 - Arg(1)) >>) @@ result
      [] OTHER -> TRUE

\* the two parameters as the emitted code copied them into its locals, and
\* the slot in which it left its result
Local0 == mem[EntryRsp - 8 - local_offset(0)]
Local1 == mem[EntryRsp - 8 - local_offset(1)]
ResultSlot == mem[RuntimePtr - 16]

\* C3: when the emitted code of i64eq / i32eq returns, the result it left is
\* 1 if its two operands are equal at the width of the operator (64 bits for
\* i64.eq, the low 32 bits for i32.eq) and 0 otherwise.
C3_EqAtOperatorWidth ==
  (store.name = "eq" /\ phase = "back") =>
    CASE req.name = "i64eq" -> ResultSlot = B(U64(Local0) = U64(Local1))
      [] req.name = "i32eq" -> ResultSlot = B(U32(Local0) = U32(Local1))
      [] OTHER -> TRUE

\* C4: in the call module, _start (call f; call f; i64.add, with f returning
\* 100 + 100) returns [I64(400)].
C4_CallReturns400 ==
  (store.name = "call" /\ Returned /\ result.name = "_start") =>
    result = ROk(<< I64(400) >>) @@ result

RECURSIVE FibFrom(_, _, _)
FibFrom(n, a, b) == IF n = 0 THEN a ELSE FibFrom(n - 1, b, a + b)
Fib(n) == FibFrom(n, 0, 1)

\* C5: calling the self-recursive fib(n) ends and returns the n-th Fibonacci
\* number.
C5_FibReturnsFibonacci ==
  (store.name = "fib" /\ Returned /\ result.name = "fib") =>
    result = ROk(<< I64(Fib(Arg(1))) >>) @@ result

\* the declared type of the function a name resolves to
TypeOf(name) ==
  get_func_type_from_func_index(store,
    store.exports[CHOOSE k \in 1 .. Len(store.exports) : store.exports[k].name = name].index)

\* C6: a call that went through to the return of the emitted code and did
\* not report an error returns exactly result_len values, each of its
\* declared result type, in order; none for a function without results.
C6_ReturnsResultLenValues ==
  (Returned /\ result.stage = "return" /\ result.kind # "Err") =>
    /\ result.kind = "Ok"
    /\ Len(result.vals) = Len(TypeOf(result.name).v.results)
    /\ \A k \in 1 .. Len(result.vals) :
         result.vals[k].ty = TypeOf(result.name).v.results[k]

Accepted ==
  { "LocalGet", "I32Const", "I64Const", "I32Add", "I64Add", "I32Sub", "I64Sub",
    "I32Eq", "I64Eq", "If", "Else", "End", "Call" }

HasUnsupported(func) == \E k \in 1 .. Len(func.body) : func.body[k].op \notin Accepted

\* C7: a call that has to compile a body holding an operator outside the
\* accepted subset returns the error UnsupportedInstruction to the host, does
\* not abort, and leaves the function out of the function cache.
C7_UnsupportedIsAnError ==
  \A k \in 1 .. Len(store.exports) :
    (/\ Returned
     /\ result.name = store.exports[k].name
     /\ store.exports[k].kind = "Func"
     /\ get_code(store, store.exports[k].index).ok
     /\ HasUnsupported(get_code(store, store.exports[k].index).v)) =>
      /\ result.kind = "Err"
      /\ result.err = "UnsupportedInstruction"
      /\ store.exports[k].index \notin DOMAIN func_cache

IsExported(name) == \E k \in 1 .. Len(store.exports) : store.exports[k].name = name

KindOf(name) ==
  store.exports[CHOOSE k \in 1 .. Len(store.exports) : store.exports[k].name = name].kind

\* C8 as stated: a name that is not exported fails with ExportNotFound(name),
\* an export that is not a function fails with ExportKindMismatch.
C8_ExportKindMismatch ==
  (Returned /\ result.stage = "resolve") =>
    /\ result.kind = "Err"
    /\ IF IsExported(result.name)
         THEN result.err = "ExportKindMismatch"
         ELSE result.err = "ExportNotFound" /\ result.arg = result.name

\* the name a step of the host passed to call_func_by_name
Called == IF result'.kind = "None" THEN req'.name ELSE result'.name

Untouched ==
  /\ p_current' = p_current
  /\ p_func_start' = p_func_start
  /\ func_cache' = func_cache
  /\ code' = code
  /\ phase' = "host"

\* C8 as the code has it: a name that is not exported fails with
\* ExportNotFound(name); an export that is not a function fails with an error
\* that is no RuntimeError variant and whose message, "Export kind is not a
\* function", names the export; in both cases the call returns at once and
\* the cursor, the code buffer and the function cache are unchanged.
C8_ResolutionFailure ==
  [][ phase = "host" =>
        /\ ~ IsExported(Called) =>
             /\ result' = RErr("ExportNotFound", Called) @@ result'
             /\ Untouched
        /\ (IsExported(Called) /\ KindOf(Called) # "Func") =>
             /\ result'.kind = "Err"
             /\ result'.err = "Export kind is not a function"
             /\ result'.err \notin RuntimeError
             /\ result'.arg = Called
             /\ Untouched ]_vars

\* a call naming the memory export has failed after a function was compiled
C8_Witness ==
  /\ phase = "host"
  /\ result.name = "memory"
  /\ result.kind = "Err"
  /\ result.stage = "resolve"
  /\ func_cache # NoFcn
  /\ p_current > p_start

\* C9: when a nested call made through call_func_internal returned a
\* non-zero handle, the emitted code returns to the host with that handle in
\* rax, and call_func_by_name reports an error.
C9_HandlePropagates ==
  /\ (phase = "back" /\ handle # 0) => regs["Rax"] = handle
  /\ (phase = "run" /\ handle # 0 /\ pc \in DOMAIN code /\ code[pc].op = "ret") =>
       regs["Rax"] = handle

\* C10: the write cursor stays within the allocated region and no emitted
\* byte lies outside [base, base + capacity).
C10_CursorWithinCapacity ==
  /\ p_start <= p_current
  /\ p_current - p_start <= CODE_AREA_SIZE
  /\ \A a \in DOMAIN code :
       p_start <= a /\ a + Len(code[a].bytes) <= p_start + CODE_AREA_SIZE

CompilationStart == IF phase = "compile" THEN cs.start ELSE p_current

\* C12: no step changes or removes an instruction that lies below the cursor
\* position at which the current compilation started, be it by appending or by
\* patching a jump; every installed entry address lies below that position,
\* so the code of installed functions is never rewritten.
C12_WritesAtOrAfterStart ==
  [][ /\ \A a \in DOMAIN code :
           a < CompilationStart => a \in DOMAIN code' /\ code'[a] = code[a]
      /\ \A i \in DOMAIN func_cache : func_cache[i] < CompilationStart ]_vars

\* while other functions are installed, a compilation has patched a jump of
\* the function it is emitting
C12_Witness ==
  /\ phase = "compile"
  /\ func_cache # NoFcn
  /\ \E a \in DOMAIN code :
       a >= cs.start /\ code[a].op \in { "je", "jmp" } /\ code[a].imm # 0
  /\ \E a \in DOMAIN code : a < cs.start

\* the emitted code is about to execute a `call`
AtCall == phase = "run" /\ pc \in DOMAIN code /\ code[pc].op = "call"

\* C13: whenever emitted code, entered from the host with rsp = 8 mod 16, is
\* about to execute a `call` instruction, rsp is a multiple of 16, whatever
\* the number of parameters of the function and the depth of the recursion.
C13_AlignedAtCall == AtCall => regs["Rsp"] % 16 = 0

\* a function of one parameter, itself entered by a compiled call, is about
\* to execute a `call`
C13_Witness ==
  /\ AtCall
  /\ store = ModFib
  /\ EntryRsp % 16 = 8
  /\ regs["Rsp"] < EntryRsp - 48
  /\ regs["Rsp"] % 16 = 0

\* the address of the instruction that ends at address x
Before(x) == CHOOSE d \in DOMAIN code : d + Len(code[d].bytes) = x

\* the emitted code is at the `pop r11` that follows a `call`, which returned 0
CallReturned ==
  /\ phase = "run"
  /\ pc \in DOMAIN code
  /\ code[pc] = Pop_r("R11")
  /\ regs["Rax"] = 0

\* the emitted code is at the `add r11, imm` that ends a call sequence
AtCallAdjust ==
  /\ phase = "run"
  /\ pc \in DOMAIN code
  /\ \E a \in DOMAIN code : code[a] = Pop_r("R11") /\ a + Len(code[a].bytes) = pc

\* the `mov r10, target` and the `mov edx, index` of the call sequence whose
\* `pop r11` is at address a
CallTarget(a) == code[Before(Before(Before(a)))].imm
CalleeIndex(a) == code[Before(Before(Before(Before(a))))].imm
CalleeType(a) == get_func_type_from_func_index(store, CalleeIndex(a)).v

\* S before the call: the value the caller pushed, still on the host stack
S_before == mem[regs["Rsp"]]

\* base = S_before - 8n
CallBase == S_before - 8 * Len(CalleeType(pc).params)

\* the k-th argument of the call that returned: a callee that ran copied it
\* to its local slot, below the return address and the saved rbp; otherwise
\* it is still in the value stack
CallArg(k) ==
  IF CallTarget(pc) = CallFuncInternalAddr
    THEN mem[CallBase + 8 * (k - 1)]
    ELSE mem[regs["Rsp"] - 16 - local_offset(k - 1)]

\* what the functions that are called by the modules compute
CalleeResult ==
  CASE store = ModCall -> 200
    [] store = ModFib -> Fib(CallArg(1))
    [] store = ModRec -> CallArg(2)
    [] store = ModMisc -> CallArg(1) * CallArg(2)

\* the result slot after the call returned, and S after the call sequence
ResultAtBase == CallReturned => CallBase \in DOMAIN mem /\ mem[CallBase] = CalleeResult

S_AfterCall ==
  (AtCallAdjust /\ phase' = "run") =>
    regs'["R11"] = mem[regs["Rsp"] - 8] - 8 * Len(CalleeType(Before(pc)).params)
                     + 8 * Len(CalleeType(Before(pc)).results)

\* compiling a Call changes stack_count by m - n
CallStackCount(instr) ==
  (phase = "compile" /\ phase' = "compile" /\ instr.op = "Call") =>
    cs'.stack_count = cs.stack_count
      - Len(get_func_type_from_func_index(store, instr.x).v.params)
      + Len(get_func_type_from_func_index(store, instr.x).v.results)

\* C14: when a call of a function with n parameters and one result has
\* returned 0, the result is in the slot at base = S_before - 8n; after the
\* call sequence S = base + 8; compiling a Call changes stack_count by
\* m - n.
C14_ResultsReplaceArguments ==
  [][ /\ phase = "compile" => CallStackCount(store.code[cs.func_index + 1].body[cs.pos])
      /\ ResultAtBase'
      /\ S_AfterCall ]_vars

\* the instruction the encoder produced for the request
Encoded == code[p_start]

\* its bytes from the ModR/M byte on: after REX and opcode of a mov, after
\* the optional prefix and the opcode of a push
ModRMBytes ==
  SubSeq(Encoded.bytes,
         IF req.name = "push_mem" THEN 2 + B(number(req.args[1]) >= 8) ELSE 3,
         Len(Encoded.bytes))

\* the mod field, whether a SIB byte follows, and the displacement bytes
ModField(m) == m[1] \div 64
HasSIB(m) == m[1] % 8 = 4
Disp(m) == SubSeq(m, 2 + B(HasSIB(m)), Len(m))

ShortestForm(m, base, offset) ==
  /\ HasSIB(m) <=> base \in { "Rsp", "R12" }
  /\ ~ HasSIB(m) => m[1] % 8 = number(base) % 8
  /\ IF offset = 0 /\ base \notin { "Rbp", "R13" }
       THEN ModField(m) = 0 /\ Disp(m) = << >>
     ELSE IF offset = 0
       THEN ModField(m) = 1 /\ Disp(m) = << 0 >>
     ELSE IF offset >= -128 /\ offset <= 127
       THEN ModField(m) = 1 /\ Disp(m) = << offset % 256 >>
     ELSE ModField(m) = 2 /\ Disp(m) = to_le_bytes(offset, 4)

\* C15: the memory operand (base, displacement) of an encoded instruction
\* has no displacement bytes when the displacement is 0, one when it is in
\* -128..127, four little-endian ones otherwise; a SIB byte follows the
\* ModR/M byte exactly when the base is rsp or r12; rbp and r13 with
\* displacement 0 get mod = 01 and a zero 8-bit displacement.
C15_ShortestModRM ==
  (code # NoFcn /\ req \in MemRequests) =>
    ShortestForm(ModRMBytes, req.args[1], req.index)

\* r13 with displacement 0 has been encoded, with a REX.B prefix
C15_Witness ==
  /\ code # NoFcn
  /\ req = Request("mov_r_mem", << "R13", "Rax" >>, 0)
  /\ Encoded.bytes = << 73, 139, 69, 0 >>

\* the register a request puts in the ModR/M reg field, and the one it puts
\* in the r/m field, as a base or in the opcode byte ("" when there is none)
RegFieldOf(r) ==
  IF r.name \in { "mov_r_mem", "mov_mem_r", "mov_rr", "add64", "add32", "sub64", "sub32",
                   "cmp64", "cmp32" }
    THEN r.args[2]
  ELSE IF r.name = "movzx" THEN r.args[1]
  ELSE ""

RmFieldOf(r) == IF r.name = "movzx" THEN "" ELSE r.args[1]

High(reg) == reg \in RegNames /\ number(reg) >= 8

IsREX(b) == b >= 64 /\ b <= 79
REX_R(b) == IsREX(b) /\ (b \div 4) % 2 = 1
REX_B(b) == IsREX(b) /\ b % 2 = 1

\* C16: the bytes of an encoded instruction start with a REX prefix that has
\* R set when the register in the reg field is one of r8..r15 and B set when
\* the register in the r/m, base or opcode-embedded field is, and the same
\* instruction with other registers has other bytes.
C16_HighRegistersCarryREX ==
  code # NoFcn =>
    /\ High(RegFieldOf(req)) => REX_R(Encoded.bytes[1])
    /\ High(RmFieldOf(req)) => REX_B(Encoded.bytes[1])
    /\ \A r \in EncRequests :
         (r.name = req.name /\ r.index = req.index /\ r.args # req.args) =>
           Assemble(r).bytes # Encoded.bytes

\* the numbers of parameters and of results of a block type
ArityIn(s, bt) == IF bt.kind = "FuncType" THEN Len(s.types[bt.n + 1].params) ELSE 0
ArityOut(s, bt) ==
  IF bt.kind = "FuncType" THEN Len(s.types[bt.n + 1].results)
  ELSE IF bt.kind = "Type" THEN 1 ELSE 0

\* the operand-stack depth of WebAssembly after the first k operators of a
\* body: d is the depth after i operators, frames the open blocks with the
\* depth below their parameters
RECURSIVE WasmDepthFrom(_, _, _, _, _, _)
WasmDepthFrom(s, body, k, i, d, frames) ==
  IF i = k THEN d
  ELSE IF body[i + 1].op \in { "LocalGet", "I32Const", "I64Const" }
    THEN WasmDepthFrom(s, body, k, i + 1, d + 1, frames)
  ELSE IF body[i + 1].op = "Call"
    THEN WasmDepthFrom(s, body, k, i + 1,
           d - Len(get_func_type_from_func_index(s, body[i + 1].x).v.params)
             + Len(get_func_type_from_func_index(s, body[i + 1].x).v.results),
           frames)
  ELSE IF body[i + 1].op = "If"
    THEN WasmDepthFrom(s, body, k, i + 1, d - 1,
           Append(frames, [height |-> d - 1 - ArityIn(s, body[i + 1].bt),
                           arity_in |-> ArityIn(s, body[i + 1].bt),
                           arity_out |-> ArityOut(s, body[i + 1].bt)]))
  ELSE IF body[i + 1].op = "Else"
    THEN WasmDepthFrom(s, body, k, i + 1,
           frames[Len(frames)].height + frames[Len(frames)].arity_in, frames)
  ELSE IF body[i + 1].op = "End"
    THEN IF frames = << >> THEN WasmDepthFrom(s, body, k, i + 1, d, frames)
         ELSE WasmDepthFrom(s, body, k, i + 1,
                frames[Len(frames)].height + frames[Len(frames)].arity_out,
                SubSeq(frames, 1, Len(frames) - 1))
  ELSE WasmDepthFrom(s, body, k, i + 1, d - 1, frames)

WasmDepth(s, body, k) == WasmDepthFrom(s, body, k, 0, 0, << >>)

\* C17: while a body is compiled, stack_count is the WebAssembly operand
\* depth after the operators processed so far; so the else arm of an if
\* starts at the depth at which the then arm started, and after `end` the
\* depth is that below the block's parameters plus its number of results.
C17_StackCountIsDepth ==
  phase = "compile" =>
    cs.stack_count = WasmDepth(store, store.code[cs.func_index + 1].body, cs.pos - 1)

\* the sites recorded in the open frames
RECURSIVE SitesOf(_)
SitesOf(labels) ==
  IF labels = << >> THEN { }
  ELSE { Head(labels).address_reserved[k] : k \in 1 .. Len(Head(labels).address_reserved) }
         \cup SitesOf(Tail(labels))

Pending == SitesOf(cs.labels)

\* the jumps of the function being compiled, and the site of a jump: the
\* address just after its displacement field
IsJump(i) == i.op \in { "je", "jmp" }
Site(buf, a) == a + Len(buf[a].bytes)
Boundaries == DOMAIN code \cup { p_current }

BodyDone == cs.pos > Len(store.code[cs.func_index + 1].body)

\* what holds of the jumps of the function while it is compiled
JumpsInOrder ==
  phase = "compile" =>
    /\ \A a \in DOMAIN code :
         (a >= cs.start /\ IsJump(code[a])) =>
           /\ SubSeq(code[a].bytes, Len(code[a].bytes) - 3, Len(code[a].bytes))
                = to_le_bytes(code[a].imm, 4)
           /\ IF Site(code, a) \in Pending THEN code[a].imm = 0
              ELSE code[a].imm > 0 /\ Site(code, a) + code[a].imm \in Boundaries
    /\ BodyDone => cs.labels = << >>

\* what a step of the compilation does to the jump at address a
JumpStep(a, op) ==
  /\ code'[a] # code[a] => Site(code, a) \in Pending /\ Site(code, a) \notin Pending'
  /\ Site(code, a) \notin Pending => Site(code, a) \notin Pending'
  /\ (Site(code, a) \in Pending /\ Site(code, a) \notin Pending') =>
       /\ op \in { "Else", "End" }
       /\ op = "Else" => code'[a].op = "je" /\ code'[a].imm = p_current' - Site(code, a)
       /\ op = "End" =>
            /\ Site(code, a) + code'[a].imm >= p_current
            /\ Site(code, a) + code'[a].imm <= p_current'
            /\ cs'.labels = SubSeq(cs.labels, 1, Len(cs.labels) - 1)
            /\ Site(code, a) \in SitesOf(<< cs.labels[Len(cs.labels)] >>)

\* C18: a jump is emitted with a zero displacement and its site recorded in
\* a frame; it is rewritten only in the step that removes its site from the
\* frames, and never again: `else` gives the if's je the displacement from
\* its site to the start of the else arm, `end` gives the sites of the frame
\* it closes the displacement to the position after the block; the bytes are
\* the little-endian displacement; when the body is done every jump has been
\* patched and no frame is open.
C18_JumpsPatchedOnce ==
  [][ (phase = "compile" /\ phase' = "compile") =>
        /\ JumpsInOrder'
        /\ \A a \in DOMAIN code' :
             (a \notin DOMAIN code /\ IsJump(code'[a])) =>
               code'[a].imm = 0 /\ Site(code', a) \in Pending'
        /\ \A a \in DOMAIN code :
             (a >= cs.start /\ IsJump(code[a])) =>
               JumpStep(a, store.code[cs.func_index + 1].body[cs.pos].op) ]_vars

\* the body of fib has been compiled: two je and two jmp, all patched
C18_Witness ==
  /\ phase = "compile"
  /\ store = ModFib
  /\ BodyDone
  /\ cs.labels = << >>
  /\ Cardinality({ a \in DOMAIN code : code[a].op = "je" /\ code[a].imm > 0 }) = 2
  /\ Cardinality({ a \in DOMAIN code : code[a].op = "jmp" /\ code[a].imm > 0 }) = 2

\* the addresses at which the paths through an if block meet: the targets
\* of the jmp that ends a then arm and of the je of an else-less if (the je
\* of an if with an else arm lands just after that jmp)
JumpTarget(a) == Site(code, a) + code[a].imm

JoinTargets ==
  { JumpTarget(a) : a \in { b \in DOMAIN code : code[b].op = "jmp" /\ code[b].imm # 0 } }
  \cup { JumpTarget(a) :
           a \in { b \in DOMAIN code :
                     /\ code[b].op = "je"
                     /\ code[b].imm # 0
                     /\ code[Before(JumpTarget(b))].op # "jmp" } }

AtJoin == phase = "run" /\ pc \in JoinTargets

\* S at the entry of the running frame: what the host passed, or what the
\* calling frame pushed before its `call`; FrameBase is the slot of the
\* frame's first argument
FrameBase ==
  (IF regs["Rbp"] + 8 = EntryRsp THEN RuntimePtr ELSE mem[regs["Rbp"] + 16])
    - 8 * Len(get_func_type_from_func_index(store, req.index).v.params)

\* the operand stack of WebAssembly where the blocks of the modules end
JoinStack ==
  CASE store = ModFib -> << Fib(mem[regs["Rbp"] - local_offset(0)]) >>
    [] store = ModRec -> << mem[regs["Rbp"] - local_offset(1)] >>
    [] store = ModBlocks /\ req.name \in { "sel0", "sel1" } -> << 5 >>
    [] store = ModBlocks /\ req.name = "ife0" -> << 5, 2 >>
    [] store = ModBlocks /\ req.name = "ife1" -> << 5, 1 >>
    [] store = ModBlocks /\ req.name = "ifp" -> << 8 >>

\* C19: when the emitted code reaches the instruction after the `end` of an
\* if block, by the then arm, by the else arm or by the jump that skips the
\* then arm of an else-less if, the operand stack is in memory from the
\* frame's base on and S points just past it.
C19_OperandsInMemoryAfterEnd ==
  AtJoin =>
    /\ regs["R11"] = FrameBase + 8 * Len(JoinStack)
    /\ \A k \in 1 .. Len(JoinStack) :
         /\ FrameBase + 8 * (k - 1) \in DOMAIN mem
         /\ mem[FrameBase + 8 * (k - 1)] = JoinStack[k]

\* C20: the entry address that the end of a compilation installs for the
\* function is the cursor position at which this compilation began, also
\* when earlier compilations failed after emitting code.
C20_EntryIsCompilationStart ==
  [][ (phase = "compile" /\ phase' = "run") =>
        /\ cs.func_index \in DOMAIN func_cache'
        /\ func_cache'[cs.func_index] = cs.start ]_vars

\* the operator the compilation is about to process
CurrentOp == store.code[cs.func_index + 1].body[cs.pos]

\* a value as a bit pattern of the operator's width
AtWidth(op, v) == IF op \in { "I32Add", "I32Sub", "I32Eq" } THEN U32(v) ELSE U64(v)

\* what add, sub and eq compute on a and b at the operator's width
Computes(op, a, b) ==
  IF op \in { "I32Add", "I64Add" } THEN AtWidth(op, a + b)
  ELSE IF op \in { "I32Sub", "I64Sub" } THEN AtWidth(op, a - b)
  ELSE B(AtWidth(op, a) = AtWidth(op, b))

FoldableOps == { "I32Add", "I64Add", "I32Sub", "I64Sub", "I32Eq", "I64Eq" }

\* C21: when add, sub or eq is compiled with two immediates on top of the
\* virtual stack, the compilation goes on and the immediate it leaves on top
\* is, at the operator's width, what the operator computes on the two
\* operands at that width.
C21_FoldKeepsSemantics ==
  [][ (/\ phase = "compile"
       /\ \lnot BodyDone
       /\ CurrentOp.op \in FoldableOps
       /\ TopTwoImm(cs.vs.stack)) =>
        /\ phase' = "compile"
        /\ cs'.vs.stack # << >>
        /\ cs'.vs.stack[Len(cs'.vs.stack)].tag = "Imm"
        /\ AtWidth(CurrentOp.op, cs'.vs.stack[Len(cs'.vs.stack)].n)
             = Computes(CurrentOp.op, cs.vs.stack[Len(cs.vs.stack) - 1].n,
                        cs.vs.stack[Len(cs.vs.stack)].n) ]_vars

\* the seven scratch registers
ScratchRegs == { "Rdi", "Rsi", "Rdx", "Rcx", "R8", "R9", "R10" }

\* how often register r is in the free pool, and how often a Reg entry of
\* the virtual stack holds it
InPool(vs, r) == Cardinality({ k \in 1 .. Len(vs.unused_regs) : vs.unused_regs[k] = r })
Held(vs, r) ==
  Cardinality({ k \in 1 .. Len(vs.stack) : vs.stack[k].tag = "Reg" /\ vs.stack[k].reg = r })

PoolPartition(vs) ==
  /\ \A r \in ScratchRegs : InPool(vs, r) + Held(vs, r) = 1
  /\ \A r \in RegNames \ ScratchRegs : InPool(vs, r) + Held(vs, r) = 0

\* the stores through S that a step appended to the code
NewStores ==
  { a \in DOMAIN code' \ DOMAIN code : code'[a].op = "store" /\ code'[a].dst = "R11" }

\* C22: while a body is compiled, each scratch register is once in the free
\* pool or held by one Reg entry of the virtual stack (also of a virtual
\* stack saved for an else arm); compiling a Call emits one store through S
\* per entry of the virtual stack and leaves it empty with all seven
\* registers free.
C22_RegistersPartitioned ==
  [][ /\ phase' = "compile" =>
           /\ PoolPartition(cs'.vs)
           /\ \A k \in 1 .. Len(cs'.labels) :
                cs'.labels[k].else_vartual_stack.some =>
                  PoolPartition(cs'.labels[k].else_vartual_stack.vs)
      /\ (phase = "compile" /\ phase' = "compile" /\ CurrentOp.op = "Call") =>
           /\ cs'.vs.stack = << >>
           /\ Len(cs'.vs.unused_regs) = 7
           /\ Cardinality(NewStores) = Len(cs.vs.stack) ]_vars

\* all seven registers are held, after a value had to be written to memory
\* to free one
C22_Witness ==
  /\ phase = "compile"
  /\ store = ModPool
  /\ cs.vs.unused_regs = << >>
  /\ cs.stack_count > 7
  /\ \A r \in ScratchRegs : Held(cs.vs, r) = 1

\* bodies without blocks and calls
StraightOps ==
  { "LocalGet", "I32Const", "I64Const", "I32Add", "I64Add", "I32Sub", "I64Sub",
    "I32Eq", "I64Eq" }

IsStraight(body) ==
  /\ body # << >>
  /\ body[Len(body)].op = "End"
  /\ \A k \in 1 .. Len(body) - 1 : body[k].op \in StraightOps

RunningBody == store.code[req.index + 1].body
RunningType == get_func_type_from_func_index(store, req.index).v

\* the generator's state (virtual stack, stack_count) and the cursor after
\* the first k operators of a straight-line body, from operator i on
RECURSIVE EmitFrom(_, _, _, _, _)
EmitNext(body, k, i, at, r) ==
  EmitFrom(body, k, i + 1,
           [vs |-> r.vs, stack_count |-> r.stack_count, labels |-> r.labels],
           at + SumLen(r.out))

EmitFrom(body, k, i, c, at) ==
  IF i = k \/ c.stack_count < 0 \/ at < 0
    THEN [vs |-> c.vs, stack_count |-> c.stack_count, at |-> at]
    ELSE EmitNext(body, k, i, at, compile(c, body[i + 1], req.index, store, at, 0))

EmissionPoint(k) ==
  EmitFrom(RunningBody, k, 0,
           [vs |-> VartualStack_new, stack_count |-> 0, labels |-> << FuncEnd >>],
           func_cache[req.index] + SumLen(prologue(Len(RunningType.params))))

\* a value as a bit pattern of its type
AtType(ty, v) == IF ty = i32 THEN U32(v) ELSE U64(v)
Typed(ty, v) == [ty |-> ty, v |-> AtType(ty, v)]

\* the operand stack of WebAssembly after the first k operators of a
\* straight-line body, the locals being those of the running frame
OpType(op) == IF op \in { "I32Add", "I32Sub", "I32Eq", "I64Eq", "I32Const" } THEN i32 ELSE i64

Apply(op, a, b) ==
  IF op \in { "I32Add", "I64Add" } THEN Typed(OpType(op), a.v + b.v)
  ELSE IF op \in { "I32Sub", "I64Sub" } THEN Typed(OpType(op), a.v - b.v)
  ELSE Typed(i32, B(a.v = b.v))

RECURSIVE WasmStackFrom(_, _, _, _)
WasmStackFrom(body, k, i, st) ==
  IF i = k THEN st
  ELSE IF body[i + 1].op = "LocalGet"
    THEN WasmStackFrom(body, k, i + 1,
           Append(st, Typed(RunningType.params[body[i + 1].x + 1],
                            mem[regs["Rbp"] - local_offset(body[i + 1].x)])))
  ELSE IF body[i + 1].op \in { "I32Const", "I64Const" }
    THEN WasmStackFrom(body, k, i + 1, Append(st, Typed(OpType(body[i + 1].op), body[i + 1].x)))
  ELSE IF body[i + 1].op = "End" THEN WasmStackFrom(body, k, i + 1, st)
  ELSE WasmStackFrom(body, k, i + 1,
         Append(SubSeq(st, 1, Len(st) - 2),
                Apply(body[i + 1].op, st[Len(st) - 1], st[Len(st)])))

WasmStack(k) == WasmStackFrom(RunningBody, k, 0, << >>)

\* the j-th value, from the bottom, of what the generator at emission point e
\* takes for the operand stack: a slot below S, then the virtual entries
InMemory(e) == e.stack_count - Len(e.vs.stack)

Entry(v) == IF v.tag = "Imm" THEN v.n ELSE regs[v.reg]

Slot(e, j) ==
  IF j <= InMemory(e) THEN mem[FrameBase + 8 * (j - 1)]
  ELSE Entry(e.vs.stack[j - InMemory(e)])

Represents(e, st) ==
  /\ e.stack_count = Len(st)
  /\ InMemory(e) >= 0
  /\ regs["R11"] = FrameBase + 8 * InMemory(e)
  /\ \A j \in 1 .. InMemory(e) : FrameBase + 8 * (j - 1) \in DOMAIN mem
  /\ \A j \in 1 .. Len(st) : AtType(st[j].ty, Slot(e, j)) = st[j].v

\* C23: when the code of a straight-line body has run up to the code of its
\* k-th operator, the operand stack of WebAssembly after k - 1 operators is,
\* from the bottom, the slots from the frame's base up to S followed by the
\* entries of the generator's virtual stack at that point, oldest first.
C23_OperandStackRepresented ==
  (phase = "run" /\ IsStraight(RunningBody)) =>
    \A k \in 0 .. Len(RunningBody) :
      pc = EmissionPoint(k).at => Represents(EmissionPoint(k), WasmStack(k))

\* ---------------------------------------------------------------------
\* the call ABI

ReturnAddress == pc + Len(code[pc].bytes)

\* what the generator has at hand for a parameter of the callee
Passed(role) ==
  CASE role = "self" -> mem[regs["Rbp"] - 8]
    [] role = "sp" -> regs["R11"]
    [] role = "index" -> CalleeIndex(ReturnAddress)

CalleeParams ==
  IF CallTarget(ReturnAddress) = CallFuncInternalAddr
    THEN call_func_internal_params
    ELSE compile_func_params

\* C24: at every emitted `call` the first argument register holds the saved
\* runtime pointer, the second the current S and the third, as a 32-bit
\* value, the callee's index, and these are, position for position, the
\* parameters of the routine that is called: call_func_internal for another
\* function, the compiled entry for a self call.
C24_CallABIAgrees ==
  AtCall =>
    /\ regs[CallArgRegs[1]] = Passed("self")
    /\ regs[CallArgRegs[2]] = Passed("sp")
    /\ regs[CallArgRegs[3]] % Half = Passed("index") % Half
    /\ \A p \in 1 .. Len(CalleeParams) :
         /\ CalleeParams[p] \in { "self", "sp", "index" }
         /\ regs[CallArgRegs[p]] % Half = Passed(CalleeParams[p]) % Half

====
